---- MODULE Spec2Model ----
(***************************************************************************)
(* MLWorkflowMultiGPU (aws/code/workflows/MLWorkflowMultiGPU.py): one HPO  *)
(* trial on a local multi-GPU dask cluster.                                *)
(*                                                                         *)
(* Numbers that are floats in the program (scores, raw predictions, the    *)
(* threshold, best_score) are kept in hundredths: 0.5 is 50, 1.0 is 100,   *)
(* the initial best_score -1 is -100.                                      *)
(*                                                                         *)
(* A substring test  'XGBoost' in hpo_config.model_type  is modelled by    *)
(* keeping, for the configured string, the set of marker words it          *)
(* contains.                                                               *)
(***************************************************************************)
EXTENDS Integers, Sequences, FiniteSets

\* ---------------------------------------------------------------- bounds
MaxFolds == 2
MaxDevices == 2
MaxFiles == 2
MaxPredictions == 2

\* ------------------------------------------------------------- constants
\* self.best_score = -1
InitBestScore == -100
\* def predict ( self, trained_model, X_test, threshold = 0.5 )
DefaultThreshold == 50
\* def save_best_model ( self, score, trained_model, filename = 'saved_model' )
DefaultFilename == "saved_model"

\* the marker words the configured model_type / input_file_type may contain
ModelTypes == SUBSET {"XGBoost", "RandomForest"}
FileTypes == SUBSET {"Parquet", "CSV"}
\* values accuracy_score may return
Scores == {0, 65, 70, 90}
\* values a booster / forest may predict for one row
RawValues == {20, 50, 51}
\* filenames a caller may pass to save_best_model
Filenames == {DefaultFilename, "checkpoint"}
\* models a caller may pass to save_best_model
Models == {1, 2}

VARIABLES
  hpo_config,      \* the trial configuration (immutable)
  device_count,    \* cupy.cuda.runtime.getDeviceCount()
  dataset_cache, cv_fold_scores, best_score, cluster, client, n_workers,
  clusters,        \* every LocalCUDACluster ever started: [n_workers, status]
  clients,         \* every Client ever connected: [cluster, status]
  disk,            \* the files in the model store: [path, model, score]
  n_writes,        \* calls of save_model / joblib.dump so far
  n_reads,         \* calls of dask_cudf.read_parquet / read_csv so far
  n_models,        \* models trained so far
  final_score,     \* the value printed as final-score, <<numerator, denominator>>
  cpc, cleanup_i,  \* the cleanup coroutine: its position and its i_fold
  dataset, split, trained_model, raw, predictions, fold_score,  \* the caller's locals
  called, raised, wrote,   \* the last call, what it raised, whether it wrote a file
  pc, i_fold       \* the trial loop

cfg == <<hpo_config, device_count>>
obj == <<dataset_cache, cv_fold_scores, best_score, cluster, client, n_workers>>
env == <<clusters, clients, disk, n_writes, n_reads, n_models, final_score>>
co == <<cpc, cleanup_i>>
locals == <<dataset, split, trained_model, raw, predictions, fold_score>>
ghost == <<called, raised, wrote>>
drv == <<pc, i_fold>>
vars == <<cfg, obj, env, co, locals, ghost, drv>>

\* ---------------------------------------------------------------- values
None == [reader |-> "none", read |-> 0, dropna |-> FALSE]
NoModel == 0
NoSplit == [random_state |-> -1, of |-> None]
NoFinalScore == <<0, 0>>
Call(op, args) == [op |-> op, args |-> args]

Min(a, b) == IF a < b THEN a ELSE b

RECURSIVE Sum(_)
Sum(s) == IF s = <<>> THEN 0 ELSE Head(s) + Sum(Tail(s))

RECURSIVE Gcd(_, _)
Gcd(a, b) == IF b = 0 THEN a ELSE Gcd(b, a % b)

\* a / b as an exact fraction in lowest terms (b > 0, a >= 0)
Divide(a, b) == LET g == Gcd(a, b) IN <<a \div g, b \div g>>

LiveClusters == {c \in 1..Len(clusters) : clusters[c].status = "running"}
LiveClients == {c \in 1..Len(clients) : clients[c].status = "running"}

PredictionVectors == UNION {[1..n -> RawValues] : n \in 1..MaxPredictions}

\* ------------------------------------------------------ cluster_initialize
\* The handles and the environment after one more cluster and client are
\* started, given the clusters and clients that exist.
\* mutant: the worker count is never capped by the number of input files
cluster_initialize_uncapped(config, devices, cls, cts) ==
  [n_workers |-> devices,
   clusters |-> Append(cls, [n_workers |-> devices, status |-> "running"]),
   clients |-> Append(cts, [cluster |-> Len(cls) + 1, status |-> "running"]),
   cluster |-> Len(cls) + 1,
   client |-> Len(cts) + 1]

cluster_initialize(config, devices, cls, cts) ==
  LET n == IF "XGBoost" \in config.model_type
           THEN Min(config.n_target_files, devices)
           ELSE devices
  IN [n_workers |-> n,
      clusters |-> Append(cls, [n_workers |-> n, status |-> "running"]),
      clients |-> Append(cts, [cluster |-> Len(cls) + 1, status |-> "running"]),
      cluster |-> Len(cls) + 1,
      client |-> Len(cts) + 1]

\* ----------------------------------------------------------------- __init__
Init ==
  /\ hpo_config \in [model_type : ModelTypes, input_file_type : FileTypes,
                     n_target_files : 1..MaxFiles, cv_folds : 0..MaxFolds]
  /\ device_count \in 1..MaxDevices
  /\ dataset_cache = None
  /\ cv_fold_scores = <<>>
  /\ best_score = InitBestScore
  /\ LET ci == cluster_initialize(hpo_config, device_count, <<>>, <<>>)
     IN /\ n_workers = ci.n_workers
        /\ clusters = ci.clusters
        /\ clients = ci.clients
        /\ cluster = ci.cluster
        /\ client = ci.client
  /\ disk = {}
  /\ n_writes = 0
  /\ n_reads = 0
  /\ n_models = 0
  /\ final_score = NoFinalScore
  /\ cpc = "idle"
  /\ cleanup_i = 0
  /\ dataset = None
  /\ split = NoSplit
  /\ trained_model = NoModel
  /\ raw = <<>>
  /\ predictions = <<>>
  /\ fold_score = 0
  /\ called = Call("__init__", <<>>)
  /\ raised = "none"
  /\ wrote = FALSE
  /\ pc = IF hpo_config.cv_folds > 0 THEN "ingest" ELSE "emit"
  /\ i_fold = 0

\* -------------------------------------------------------------- ingest_data
\* read_ok: whether dask_cudf's reader returns a dataset (it raises otherwise)
\* mutant: the cache is not consulted, every call reads the files
ingest_data_no_cache(read_ok) ==
  /\ called' = Call("ingest_data", <<>>)
  /\ wrote' = FALSE
  /\ IF "Parquet" \in hpo_config.input_file_type \/ "CSV" \in hpo_config.input_file_type
     THEN LET reader == IF "Parquet" \in hpo_config.input_file_type
                        THEN "read_parquet" ELSE "read_csv"
              read == [reader |-> reader, read |-> n_reads + 1, dropna |-> FALSE]
          IN /\ n_reads' = n_reads + 1
             /\ IF read_ok
                THEN /\ dataset_cache' = read
                     /\ dataset' = read
                     /\ raised' = "none"
                ELSE /\ raised' = "IOError"
                     /\ UNCHANGED <<dataset_cache, dataset>>
     ELSE /\ raised' = "UnboundLocalError"
          /\ UNCHANGED <<dataset_cache, dataset, n_reads>>
  /\ UNCHANGED <<cfg, cv_fold_scores, best_score, cluster, client, n_workers>>
  /\ UNCHANGED <<clusters, clients, disk, n_writes, n_models, final_score, co>>
  /\ UNCHANGED <<split, trained_model, raw, predictions, fold_score>>

ingest_data(read_ok) ==
  /\ called' = Call("ingest_data", <<>>)
  /\ wrote' = FALSE
  /\ IF dataset_cache # None
     THEN /\ dataset' = dataset_cache
          /\ raised' = "none"
          /\ UNCHANGED <<dataset_cache, n_reads>>
     ELSE IF "Parquet" \in hpo_config.input_file_type \/ "CSV" \in hpo_config.input_file_type
     THEN LET reader == IF "Parquet" \in hpo_config.input_file_type
                        THEN "read_parquet" ELSE "read_csv"
              read == [reader |-> reader, read |-> n_reads + 1, dropna |-> FALSE]
          IN /\ n_reads' = n_reads + 1
             /\ IF read_ok
                THEN /\ dataset_cache' = read
                     /\ dataset' = read
                     /\ raised' = "none"
                ELSE /\ raised' = "IOError"
                     /\ UNCHANGED <<dataset_cache, dataset>>
     ELSE \* len(dataset): dataset was never assigned
          /\ raised' = "UnboundLocalError"
          /\ UNCHANGED <<dataset_cache, dataset, n_reads>>
  /\ UNCHANGED <<cfg, cv_fold_scores, best_score, cluster, client, n_workers>>
  /\ UNCHANGED <<clusters, clients, disk, n_writes, n_models, final_score, co>>
  /\ UNCHANGED <<split, trained_model, raw, predictions, fold_score>>

\* ------------------------------------------------------ handle_missing_data
handle_missing_data(d) ==
  /\ called' = Call("handle_missing_data", <<d>>)
  /\ wrote' = FALSE
  /\ raised' = "none"
  /\ dataset' = [d EXCEPT !.dropna = TRUE]
  /\ UNCHANGED <<cfg, obj, env, co>>
  /\ UNCHANGED <<split, trained_model, raw, predictions, fold_score>>

\* ------------------------------------------------------------ split_dataset
split_dataset(d, random_state) ==
  /\ called' = Call("split_dataset", <<d, random_state>>)
  /\ wrote' = FALSE
  /\ raised' = "none"
  /\ split' = [random_state |-> random_state, of |-> d]
  /\ UNCHANGED <<cfg, obj, env, co>>
  /\ UNCHANGED <<dataset, trained_model, raw, predictions, fold_score>>

\* ---------------------------------------------------------------------- fit
\* mutant: the second branch is an else, any other family trains a forest
fit_else_forest(train) ==
  /\ called' = Call("fit", <<train>>)
  /\ wrote' = FALSE
  /\ n_models' = n_models + 1
  /\ trained_model' = n_models + 1
  /\ raised' = "none"
  /\ UNCHANGED <<cfg, obj, co>>
  /\ UNCHANGED <<clusters, clients, disk, n_writes, n_reads, final_score>>
  /\ UNCHANGED <<dataset, split, raw, predictions, fold_score>>

fit(train) ==
  /\ called' = Call("fit", <<train>>)
  /\ wrote' = FALSE
  /\ IF "XGBoost" \in hpo_config.model_type \/ "RandomForest" \in hpo_config.model_type
     THEN /\ n_models' = n_models + 1
          /\ trained_model' = n_models + 1
          /\ raised' = "none"
     ELSE \* return trained_model: trained_model was never assigned
          /\ raised' = "UnboundLocalError"
          /\ UNCHANGED <<n_models, trained_model>>
  /\ UNCHANGED <<cfg, obj, co>>
  /\ UNCHANGED <<clusters, clients, disk, n_writes, n_reads, final_score>>
  /\ UNCHANGED <<dataset, split, raw, predictions, fold_score>>

\* ------------------------------------------------------------------ predict
\* mutant: predictions >= threshold
Binarize_inclusive(output, threshold) ==
  [i \in 1..Len(output) |-> IF output[i] >= threshold THEN 100 ELSE 0]

\* (predictions > threshold) * 1.0
Binarize(output, threshold) ==
  [i \in 1..Len(output) |-> IF output[i] > threshold THEN 100 ELSE 0]

\* output: what the model's own predict computes for X_test
predict(model, output, threshold) ==
  /\ called' = Call("predict", <<model, threshold>>)
  /\ wrote' = FALSE
  /\ IF "XGBoost" \in hpo_config.model_type
     THEN /\ raw' = output
          /\ predictions' = Binarize(output, threshold)
          /\ raised' = "none"
     ELSE IF "RandomForest" \in hpo_config.model_type
     THEN /\ raw' = output
          /\ predictions' = output
          /\ raised' = "none"
     ELSE \* return predictions: predictions was never assigned
          /\ raised' = "UnboundLocalError"
          /\ UNCHANGED <<raw, predictions>>
  /\ UNCHANGED <<cfg, obj, env, co>>
  /\ UNCHANGED <<dataset, split, trained_model, fold_score>>

\* -------------------------------------------------------------------- score
\* accuracy: what accuracy_score returns for (y_test, predictions)
\* mutant: the log is overwritten, not appended to
score_overwrite(accuracy) ==
  /\ called' = Call("score", <<predictions>>)
  /\ wrote' = FALSE
  /\ raised' = "none"
  /\ cv_fold_scores' = <<accuracy>>
  /\ fold_score' = accuracy
  /\ UNCHANGED <<cfg, env, co>>
  /\ UNCHANGED <<dataset_cache, best_score, cluster, client, n_workers>>
  /\ UNCHANGED <<dataset, split, trained_model, raw, predictions>>

score(accuracy) ==
  /\ called' = Call("score", <<predictions>>)
  /\ wrote' = FALSE
  /\ raised' = "none"
  /\ cv_fold_scores' = cv_fold_scores \o <<accuracy>>
  /\ fold_score' = accuracy
  /\ UNCHANGED <<cfg, env, co>>
  /\ UNCHANGED <<dataset_cache, best_score, cluster, client, n_workers>>
  /\ UNCHANGED <<dataset, split, trained_model, raw, predictions>>

\* ---------------------------------------------------------- save_best_model
ModelStoreDirectory == "model_store_directory"

\* disk after path is written (a file of that path is replaced)
WriteFile(files, path, model, s) ==
  {f \in files : f.path # path} \cup {[path |-> path, model |-> model, score |-> s]}

\* output_filename + suffix, the suffix chosen by the model family
OutputPath(filename, suffix) == <<ModelStoreDirectory, filename, suffix>>

\* mutant: every new best is kept in a file of its own, named after its score
save_best_model_versioned(s, model, filename) ==
  /\ called' = Call("save_best_model", <<s, model, filename>>)
  /\ raised' = "none"
  /\ IF s > best_score
     THEN /\ best_score' = s
          /\ IF "XGBoost" \in hpo_config.model_type
             THEN /\ disk' = WriteFile(disk, <<ModelStoreDirectory, filename, "_mgpu_xgb", s>>, model, s)
                  /\ n_writes' = n_writes + 1
                  /\ wrote' = TRUE
             ELSE IF "RandomForest" \in hpo_config.model_type
             THEN /\ disk' = WriteFile(disk, <<ModelStoreDirectory, filename, "_mgpu_rf", s>>, model, s)
                  /\ n_writes' = n_writes + 1
                  /\ wrote' = TRUE
             ELSE /\ wrote' = FALSE
                  /\ UNCHANGED <<disk, n_writes>>
     ELSE /\ wrote' = FALSE
          /\ UNCHANGED <<best_score, disk, n_writes>>
  /\ UNCHANGED <<cfg, co, locals>>
  /\ UNCHANGED <<dataset_cache, cv_fold_scores, cluster, client, n_workers>>
  /\ UNCHANGED <<clusters, clients, n_reads, n_models, final_score>>

save_best_model(s, model, filename) ==
  /\ called' = Call("save_best_model", <<s, model, filename>>)
  /\ raised' = "none"
  /\ IF s > best_score
     THEN /\ best_score' = s
          /\ IF "XGBoost" \in hpo_config.model_type
             THEN /\ disk' = WriteFile(disk, OutputPath(filename, "_mgpu_xgb"), model, s)
                  /\ n_writes' = n_writes + 1
                  /\ wrote' = TRUE
             ELSE IF "RandomForest" \in hpo_config.model_type
             THEN /\ disk' = WriteFile(disk, OutputPath(filename, "_mgpu_rf"), model, s)
                  /\ n_writes' = n_writes + 1
                  /\ wrote' = TRUE
             ELSE /\ wrote' = FALSE
                  /\ UNCHANGED <<disk, n_writes>>
     ELSE /\ wrote' = FALSE
          /\ UNCHANGED <<best_score, disk, n_writes>>
  /\ UNCHANGED <<cfg, co, locals>>
  /\ UNCHANGED <<dataset_cache, cv_fold_scores, cluster, client, n_workers>>
  /\ UNCHANGED <<clusters, clients, n_reads, n_models, final_score>>

\* ------------------------------------------------------------------ cleanup
\* cleanup(i_fold) is a coroutine: it suspends at each await.
\* The call: the branch on i_fold is taken and client.close() is started.
cleanup(i) ==
  /\ cpc = "idle"
  /\ called' = Call("cleanup", <<i>>)
  /\ wrote' = FALSE
  /\ raised' = "none"
  /\ cleanup_i' = i
  /\ cpc' = IF i = hpo_config.cv_folds - 1 \/ i < hpo_config.cv_folds - 1
            THEN "client.close" ELSE "idle"
  /\ UNCHANGED <<cfg, obj, env, locals>>

\* await self.client.close() returns
cleanup_client_closed ==
  /\ cpc = "client.close"
  /\ clients' = [clients EXCEPT ![client].status = "closed"]
  /\ cpc' = "cluster.close"
  /\ UNCHANGED <<cfg, obj, locals, ghost, cleanup_i>>
  /\ UNCHANGED <<clusters, disk, n_writes, n_reads, n_models, final_score>>

\* mutant: i_fold is compared with cv_folds, so the last fold re-provisions too
cleanup_cluster_closed_off_by_one ==
  /\ cpc = "cluster.close"
  /\ clusters' = [clusters EXCEPT ![cluster].status = "closed"]
  /\ cpc' = IF cleanup_i = hpo_config.cv_folds THEN "idle" ELSE "cluster_initialize"
  /\ UNCHANGED <<cfg, obj, locals, ghost, cleanup_i>>
  /\ UNCHANGED <<clients, disk, n_writes, n_reads, n_models, final_score>>

\* mutant: an earlier fold closes the cluster and does not start a new one
cleanup_cluster_closed_no_restart ==
  /\ cpc = "cluster.close"
  /\ clusters' = [clusters EXCEPT ![cluster].status = "closed"]
  /\ cpc' = "idle"
  /\ UNCHANGED <<cfg, obj, locals, ghost, cleanup_i>>
  /\ UNCHANGED <<clients, disk, n_writes, n_reads, n_models, final_score>>

\* await self.cluster.close() returns; the last fold's cleanup ends here
cleanup_cluster_closed ==
  /\ cpc = "cluster.close"
  /\ clusters' = [clusters EXCEPT ![cluster].status = "closed"]
  /\ cpc' = IF cleanup_i = hpo_config.cv_folds - 1 THEN "idle" ELSE "cluster_initialize"
  /\ UNCHANGED <<cfg, obj, locals, ghost, cleanup_i>>
  /\ UNCHANGED <<clients, disk, n_writes, n_reads, n_models, final_score>>

\* mutant: the dataset cache is dropped with the cluster it was read on
cleanup_reinitialize_drops_cache ==
  /\ cpc = "cluster_initialize"
  /\ LET ci == cluster_initialize(hpo_config, device_count, clusters, clients)
     IN /\ n_workers' = ci.n_workers
        /\ clusters' = ci.clusters
        /\ clients' = ci.clients
        /\ cluster' = ci.cluster
        /\ client' = ci.client
  /\ cpc' = "idle"
  /\ dataset_cache' = None
  /\ UNCHANGED <<cfg, locals, ghost, cleanup_i>>
  /\ UNCHANGED <<cv_fold_scores, best_score>>
  /\ UNCHANGED <<disk, n_writes, n_reads, n_models, final_score>>

\* self.cluster, self.client = self.cluster_initialize()
cleanup_reinitialize ==
  /\ cpc = "cluster_initialize"
  /\ LET ci == cluster_initialize(hpo_config, device_count, clusters, clients)
     IN /\ n_workers' = ci.n_workers
        /\ clusters' = ci.clusters
        /\ clients' = ci.clients
        /\ cluster' = ci.cluster
        /\ client' = ci.client
  /\ cpc' = "idle"
  /\ UNCHANGED <<cfg, locals, ghost, cleanup_i>>
  /\ UNCHANGED <<dataset_cache, cv_fold_scores, best_score>>
  /\ UNCHANGED <<disk, n_writes, n_reads, n_models, final_score>>

\* --------------------------------------------------------- emit_final_score
emit_final_score ==
  /\ called' = Call("emit_final_score", <<>>)
  /\ wrote' = FALSE
  /\ IF Len(cv_fold_scores) = 0
     THEN /\ raised' = "ZeroDivisionError"
          /\ UNCHANGED final_score
     ELSE /\ raised' = "none"
          /\ final_score' = Divide(Sum(cv_fold_scores), Len(cv_fold_scores))
  /\ UNCHANGED <<cfg, obj, co, locals>>
  /\ UNCHANGED <<clusters, clients, disk, n_writes, n_reads, n_models>>

\* ------------------------------------------------------------ the trial loop
\* for i_fold in range(cv_folds): ingest, clean, split, train, predict, score,
\* persist, recycle; then the final score is emitted.  An exception ends
\* the trial.
TrialIngest ==
  /\ pc = "ingest"
  /\ \E read_ok \in BOOLEAN : ingest_data(read_ok)
  /\ pc' = IF raised' = "none" THEN "clean" ELSE "aborted"
  /\ UNCHANGED i_fold

TrialClean ==
  /\ pc = "clean"
  /\ handle_missing_data(dataset)
  /\ pc' = "split"
  /\ UNCHANGED i_fold

TrialSplit ==
  /\ pc = "split"
  /\ split_dataset(dataset, i_fold)
  /\ pc' = "train"
  /\ UNCHANGED i_fold

TrialTrain ==
  /\ pc = "train"
  /\ fit(split)
  /\ pc' = IF raised' = "none" THEN "predict" ELSE "aborted"
  /\ UNCHANGED i_fold

TrialPredict ==
  /\ pc = "predict"
  /\ \E output \in PredictionVectors : predict(trained_model, output, DefaultThreshold)
  /\ pc' = IF raised' = "none" THEN "score" ELSE "aborted"
  /\ UNCHANGED i_fold

TrialScore ==
  /\ pc = "score"
  /\ \E accuracy \in Scores : score(accuracy)
  /\ pc' = "persist"
  /\ UNCHANGED i_fold

TrialPersist ==
  /\ pc = "persist"
  /\ save_best_model(fold_score, trained_model, DefaultFilename)
  /\ pc' = "recycle"
  /\ UNCHANGED i_fold

TrialRecycle ==
  /\ pc = "recycle"
  /\ cleanup(i_fold)
  /\ pc' = "await"
  /\ UNCHANGED i_fold

\* the awaited cleanup runs to its end
TrialAwait ==
  /\ pc = "await"
  /\ cleanup_client_closed \/ cleanup_cluster_closed \/ cleanup_reinitialize
  /\ UNCHANGED drv

TrialNextFold ==
  /\ pc = "await"
  /\ cpc = "idle"
  /\ i_fold' = i_fold + 1
  /\ pc' = IF i_fold + 1 < hpo_config.cv_folds THEN "ingest" ELSE "emit"
  /\ UNCHANGED <<cfg, obj, env, co, locals, ghost>>

TrialEmit ==
  /\ pc = "emit"
  /\ emit_final_score
  /\ pc' = IF raised' = "none" THEN "done" ELSE "aborted"
  /\ UNCHANGED i_fold

Next ==
  \/ TrialIngest
  \/ TrialClean
  \/ TrialSplit
  \/ TrialTrain
  \/ TrialPredict
  \/ TrialScore
  \/ TrialPersist
  \/ TrialRecycle
  \/ TrialAwait
  \/ TrialNextFold
  \/ TrialEmit

Spec == Init /\ [][Next]_vars

\* ------------------------------------------- save_best_model called directly
\* A caller that holds the constructed workflow and calls save_best_model
\* with scores, models and filenames of its own.
CallSaveBestModel ==
  \E s \in Scores, model \in Models, filename \in Filenames :
    /\ save_best_model(s, model, filename)
    /\ UNCHANGED drv

SaveNext == CallSaveBestModel

SaveSpec == Init /\ [][SaveNext]_vars

\* ================================================================== claims
FamilySupported ==
  "XGBoost" \in hpo_config.model_type \/ "RandomForest" \in hpo_config.model_type
FormatSupported ==
  "Parquet" \in hpo_config.input_file_type \/ "CSV" \in hpo_config.input_file_type
FamilySuffix == IF "XGBoost" \in hpo_config.model_type THEN "_mgpu_xgb" ELSE "_mgpu_rf"

\* C1 (as claimed, under SaveSpec): every save_best_model(score, model) call
\* writes a file exactly when score exceeds the running best, leaves
\* best_score and the disk alone when it does not, and after a call that
\* exceeded the best the disk holds that call's model with that score.
C1_SaveBestMonotonic ==
  [][called'.op = "save_best_model" =>
       LET s == called'.args[1]
           model == called'.args[2]
       IN /\ wrote' <=> (s > best_score)
          /\ (s <= best_score) => (best_score' = best_score /\ disk' = disk)
          /\ (s > best_score) =>
               /\ best_score' = s
               /\ \E f \in disk' : f.model = model /\ f.score = s]_vars

\* C1, the part that holds for every configuration: best_score never
\* decreases, nothing is written by a call whose score does not exceed the
\* running best, and every file written holds the model of the best score.
C1_NoWriteUnlessBetter ==
  [][called'.op = "save_best_model" =>
       LET s == called'.args[1]
       IN /\ best_score' >= best_score
          /\ (s <= best_score) => (~wrote' /\ best_score' = best_score /\ disk' = disk)
          /\ wrote' => \E f \in disk' : f.model = called'.args[2] /\ f.score = best_score']_vars

\* C1: a state in which a new best score was recorded and no model written
C1_BestWithoutFile ==
  called.op = "save_best_model" /\ best_score > InitBestScore /\ disk = {}

\* C2 (Spec): a completed trial of F >= 1 folds has F scores in the log, the
\* score call of fold i put its score at place i of the log, the log only
\* grows by appending, and the final score is the mean of the log.
C2_FoldScoresAndMean ==
  /\ [](pc = "done" =>
          /\ hpo_config.cv_folds >= 1
          /\ Len(cv_fold_scores) = hpo_config.cv_folds
          /\ final_score[2] > 0
          /\ final_score[1] * Len(cv_fold_scores) = final_score[2] * Sum(cv_fold_scores))
  /\ [](called.op = "score" =>
          /\ Len(cv_fold_scores) = i_fold + 1
          /\ cv_fold_scores[i_fold + 1] = fold_score)
  /\ [][/\ Len(cv_fold_scores') >= Len(cv_fold_scores)
        /\ SubSeq(cv_fold_scores', 1, Len(cv_fold_scores)) = cv_fold_scores
        /\ Len(cv_fold_scores') <= Len(cv_fold_scores) + 1
        /\ (cv_fold_scores' # cv_fold_scores) => called'.op = "score"]_vars

\* C2: a two-fold trial completed with scores 0.65 and 0.70 (mean 0.675)
C2_Witness ==
  pc = "done" /\ cv_fold_scores = <<65, 70>> /\ final_score = <<135, 2>>

\* C3 (Spec): at most one cluster and one client are live at any time; the
\* old pair is closed when cleanup starts the new one; after cleanup of the
\* last fold no cluster or client is live; after cleanup of an earlier fold
\* exactly the newly started cluster and its client are live.
C3_CleanupHandles ==
  /\ Cardinality(LiveClusters) <= 1
  /\ Cardinality(LiveClients) <= 1
  /\ cpc = "cluster_initialize" => (LiveClusters = {} /\ LiveClients = {})
  /\ (called.op = "cleanup" /\ cpc = "idle" /\ cleanup_i = hpo_config.cv_folds - 1) =>
       (LiveClusters = {} /\ LiveClients = {})
  /\ (called.op = "cleanup" /\ cpc = "idle" /\ cleanup_i < hpo_config.cv_folds - 1) =>
       /\ LiveClusters = {cluster}
       /\ LiveClients = {client}
       /\ clients[client].cluster = cluster
       /\ cluster = Len(clusters)
       /\ Len(clusters) = cleanup_i + 2

\* C3: the last fold's cleanup completed after an earlier fold re-provisioned
C3_Witness ==
  /\ called.op = "cleanup" /\ cpc = "idle"
  /\ cleanup_i = hpo_config.cv_folds - 1
  /\ Len(clusters) = 2
  /\ LiveClusters = {}

\* C4 (Spec): the readers are called at most once in a trial, and every
\* ingest_data call that returns hands back the cached dataset, which is
\* the one the first read produced.
C4_IngestOnce ==
  /\ n_reads <= 1
  /\ dataset_cache # None => (n_reads = 1 /\ dataset_cache.read = 1 /\ ~dataset_cache.dropna)
  /\ (called.op = "ingest_data" /\ raised = "none") =>
       (dataset_cache # None /\ dataset = dataset_cache)

\* C4: the second fold's ingest_data returned, the files read once
C4_Witness ==
  /\ called.op = "ingest_data" /\ raised = "none"
  /\ i_fold = 1
  /\ n_reads = 1
  /\ dataset = dataset_cache

\* C5 (Spec): every cluster ever started has min(A, K) workers for a model
\* type containing XGBoost and A workers otherwise, never more than A, and
\* never more than K for XGBoost.
C5_WorkerCount ==
  \A c \in 1..Len(clusters) :
    LET w == clusters[c].n_workers
        A == device_count
        K == hpo_config.n_target_files
    IN /\ w <= A
       /\ "XGBoost" \in hpo_config.model_type => (w <= K /\ (w = A \/ w = K))
       /\ "XGBoost" \notin hpo_config.model_type => w = A
       /\ c = cluster => n_workers = w

\* C5: a re-provisioned XGBoost cluster capped by the number of files
C5_Witness ==
  /\ Len(clusters) = 2
  /\ "XGBoost" \in hpo_config.model_type
  /\ hpo_config.n_target_files < device_count
  /\ clusters[2].n_workers = hpo_config.n_target_files

\* C6 (as claimed, under SaveSpec): the model store never holds more than
\* one file.
C6_AtMostOneModelFile == Cardinality(disk) <= 1

\* C6 (amended, under SaveSpec): every file is under the model-store
\* directory with the family's suffix, there is at most one file per
\* filename passed (so at most one under the default filename), and a call
\* that wrote left its model under its filename.
C6_OneFilePerFilename ==
  /\ \A f \in disk :
       /\ f.path = <<ModelStoreDirectory, f.path[2], FamilySuffix>>
       /\ f.path[2] \in Filenames
       /\ FamilySupported
  /\ \A f, g \in disk : f.path[2] = g.path[2] => f = g
  /\ Cardinality({f \in disk : f.path[2] = DefaultFilename}) <= 1
  /\ wrote =>
       \E f \in disk : /\ f.path[2] = called.args[3]
                       /\ f.model = called.args[2]
                       /\ f.score = called.args[1]

\* C6: a second, better model replaced the first under the default filename
C6_Witness ==
  /\ wrote
  /\ n_writes = 2
  /\ called.args[3] = DefaultFilename
  /\ Cardinality(disk) = 1

\* C7 (Spec): the calls follow the pipeline order; a call is made only when
\* no cleanup is in progress and the handles are those of a running cluster
\* and a running client connected to it.
CallOrder ==
  {<<"__init__", "ingest_data">>, <<"__init__", "emit_final_score">>,
   <<"ingest_data", "handle_missing_data">>,
   <<"handle_missing_data", "split_dataset">>,
   <<"split_dataset", "fit">>, <<"fit", "predict">>, <<"predict", "score">>,
   <<"score", "save_best_model">>, <<"save_best_model", "cleanup">>,
   <<"cleanup", "ingest_data">>, <<"cleanup", "emit_final_score">>}

C8_ThresholdBinarization ==
  /\ Len(predictions) = Len(raw)
  /\ called.op = "predict" => called.args[2] = 50
  /\ "XGBoost" \in hpo_config.model_type =>
       \A i \in 1..Len(raw) :
         /\ raw[i] > 50 => predictions[i] = 100
         /\ raw[i] <= 50 => predictions[i] = 0
  /\ "XGBoost" \notin hpo_config.model_type => predictions = raw

\* C8: raw predictions 0.5 and 0.51 became 0.0 and 1.0
C8_Witness ==
  /\ "XGBoost" \in hpo_config.model_type
  /\ called.op = "predict"
  /\ raw = <<50, 51>>
  /\ predictions = <<0, 100>>

\* C9 (Spec): with an unsupported model type fit raises UnboundLocalError
\* and the trial ends with an empty score log, the initial best_score, no
\* model file and no final score; with an unsupported file type ingest_data
\* raises UnboundLocalError, the cache stays empty and nothing was read.
C9_UnsupportedAborts ==
  /\ ~FamilySupported =>
       /\ cv_fold_scores = <<>>
       /\ best_score = InitBestScore
       /\ disk = {}
       /\ final_score = NoFinalScore
       /\ called.op \notin {"predict", "score", "save_best_model", "cleanup"}
       /\ called.op = "fit" => (raised = "UnboundLocalError" /\ pc = "aborted")
       /\ pc # "done"
  /\ ~FormatSupported =>
       /\ dataset_cache = None
       /\ n_reads = 0
       /\ called.op \in {"__init__", "ingest_data", "emit_final_score"}
       /\ called.op = "ingest_data" => (raised = "UnboundLocalError" /\ pc = "aborted")
       /\ cv_fold_scores = <<>> /\ best_score = InitBestScore /\ disk = {}
       /\ pc # "done"

\* C9: fit was reached with an unsupported model type and the trial ended
C9_Witness ==
  /\ ~FamilySupported
  /\ FormatSupported
  /\ called.op = "fit"
  /\ raised = "UnboundLocalError"
  /\ pc = "aborted"

====
